---------------------------- MODULE Spec2Model ----------------------------
(***************************************************************************)
(* A model of codebase_rag/graph_updater.py: the qualified-name registry   *)
(* (FunctionRegistryTrie), the simple-name index, the parsed-tree cache,   *)
(* incremental removal (GraphUpdater.remove_file_from_state) and the       *)
(* multi-pass pipeline (GraphUpdater.run).                                 *)
(*                                                                         *)
(* Python strings are sequences of one-character strings, so that split,   *)
(* join, startswith and endswith are computed character by character.      *)
(* A path is the sequence of its parts, each part a string.                *)
(* A Python list whose order the callers must not depend on (keys(), the   *)
(* results of the find_* queries) is a set.                                *)
(***************************************************************************)
EXTENDS Naturals, Sequences, FiniteSets, TLC

VARIABLES
    function_registry,   \* FunctionRegistryTrie: [root, entries] (entries is _entries)
    simple_name_lookup,  \* dict[str, set[str]] (a defaultdict: a key read is a key made)
    ast_cache,           \* dict[Path, (root_node, language)]
    pc,                  \* where run() stands
    todo,                \* files os.walk has still to yield in _process_files
    calls_todo,          \* cache entries _process_function_calls has still to visit
    trace,               \* the collaborator calls run() has made, in order
    last,                \* the operation that produced this state, with the state before it
    nops,                \* operations performed (bounded by MaxOps)
    parsed               \* history: the paths process_file returned a result for and
                         \* remove_file_from_state has not taken since, in the most
                         \* recent run (.run) and in any run (.any)

vars == <<function_registry, simple_name_lookup, ast_cache, pc, todo, calls_todo,
          trace, last, nops, parsed>>

-----------------------------------------------------------------------------
(* Strings *)

Dot == "."

\* str.startswith
StartsWith(s, prefix) ==
    /\ Len(prefix) <= Len(s)
    /\ SubSeq(s, 1, Len(prefix)) = prefix

\* str.endswith
EndsWith(s, suffix) ==
    /\ Len(suffix) <= Len(s)
    /\ SubSeq(s, Len(s) - Len(suffix) + 1, Len(s)) = suffix

\* The index of the first "." of s, 0 when there is none.
FirstDot(s) ==
    IF \E i \in 1..Len(s) : s[i] = Dot
    THEN CHOOSE i \in 1..Len(s) : s[i] = Dot /\ \A j \in 1..(i - 1) : s[j] # Dot
    ELSE 0

\* str.rfind("."), 1-based: the index of the last "." of s, 0 when there is none.
LastDot(s) ==
    IF \E i \in 1..Len(s) : s[i] = Dot
    THEN CHOOSE i \in 1..Len(s) : s[i] = Dot /\ \A j \in (i + 1)..Len(s) : s[j] # Dot
    ELSE 0

RECURSIVE Split(_)
\* s.split("."): the empty string splits into one empty part.
Split(s) ==
    LET i == FirstDot(s)
    IN  IF i = 0 THEN <<s>>
        ELSE <<SubSeq(s, 1, i - 1)>> \o Split(SubSeq(s, i + 1, Len(s)))

RECURSIVE Join(_)
\* ".".join(parts)
Join(parts) ==
    IF Len(parts) = 0 THEN <<>>
    ELSE IF Len(parts) = 1 THEN parts[1]
    ELSE parts[1] \o <<Dot>> \o Join(Tail(parts))

-----------------------------------------------------------------------------
(* FunctionRegistryTrie *)

\* The nested dict self.root is the function from the path of each node (the
\* sequence of keys leading to it) to that node's metadata keys and values; a
\* node's children are the paths one key longer. The qualified names of the
\* model have no segment equal to a metadata key.
NoMeta == [k \in {} |-> <<>>]

Terminal(func_type, qualified_name) ==
    ("__type__" :> func_type) @@ ("__qn__" :> qualified_name)

\* FunctionRegistryTrie.__init__
EmptyRegistry == [root |-> [n \in {<<>>} |-> NoMeta], entries |-> <<>>]

\* The loop of insert, were it to stop one part short of the name.
PathNodesShort(parts) == {SubSeq(parts, 1, k) : k \in 1..(Len(parts) - 1)}

\* The nodes the loop of insert walks or creates: parts[:1], parts[:2], ...
PathNodes(parts) == {SubSeq(parts, 1, k) : k \in 1..Len(parts)}

\* insert's last two statements: where the terminal markers are written.
TerminalNode(parts) == parts

\* insert, were it to write the markers on every node of the path.
insert_marking_path(reg, qualified_name, func_type) ==
    LET parts == Split(qualified_name)
        nodes == DOMAIN reg.root \cup PathNodes(parts)
    IN  [entries |-> (qualified_name :> func_type) @@ reg.entries,
         root    |-> [n \in nodes |->
                        IF n \in PathNodes(parts)
                        THEN Terminal(func_type, qualified_name)
                        ELSE reg.root[n]]]

\* insert, were it to leave the markers of a node that already has them.
insert_keeping_markers(reg, qualified_name, func_type) ==
    LET parts == Split(qualified_name)
        nodes == DOMAIN reg.root \cup PathNodes(parts)
    IN  [entries |-> (qualified_name :> func_type) @@ reg.entries,
         root    |-> [n \in nodes |->
                        IF n \in DOMAIN reg.root /\ reg.root[n] # NoMeta THEN reg.root[n]
                        ELSE IF n = TerminalNode(parts)
                        THEN Terminal(func_type, qualified_name)
                        ELSE NoMeta]]

insert(reg, qualified_name, func_type) ==
    LET parts == Split(qualified_name)
        nodes == DOMAIN reg.root \cup PathNodes(parts)
    IN  [entries |-> (qualified_name :> func_type) @@ reg.entries,
         root    |-> [n \in nodes |->
                        IF n = TerminalNode(parts)
                        THEN Terminal(func_type, qualified_name)
                        ELSE IF n \in DOMAIN reg.root THEN reg.root[n] ELSE NoMeta]]

None == "None"

get(reg, qualified_name) ==
    IF qualified_name \in DOMAIN reg.entries THEN reg.entries[qualified_name] ELSE None

__contains__(reg, qualified_name) == qualified_name \in DOMAIN reg.entries

\* __delitem__, were it to clear the markers of the name's node as well.
__delitem___clearing_markers(reg, qualified_name) ==
    IF qualified_name \in DOMAIN reg.entries
    THEN [entries |-> [q \in DOMAIN reg.entries \ {qualified_name} |-> reg.entries[q]],
          root    |-> [n \in DOMAIN reg.root |->
                         IF n = Split(qualified_name) THEN NoMeta ELSE reg.root[n]]]
    ELSE reg

__delitem__(reg, qualified_name) ==
    IF qualified_name \in DOMAIN reg.entries
    THEN [reg EXCEPT !.entries =
            [q \in DOMAIN reg.entries \ {qualified_name} |-> reg.entries[q]]]
    ELSE reg

keys(reg) == DOMAIN reg.entries

items(reg) == {<<q, reg.entries[q]>> : q \in DOMAIN reg.entries}

__len__(reg) == Cardinality(DOMAIN reg.entries)

\* The children of a node that dfs descends into: the keys that do not start
\* with "__".
DfsChildren(root, node) ==
    {n \in DOMAIN root :
        /\ Len(n) = Len(node) + 1
        /\ SubSeq(n, 1, Len(node)) = node
        /\ ~StartsWith(n[Len(n)], <<"_", "_">>)}

\* The test dfs applies to the qualified name of a terminal node.
SuffixMatch(qn, suffix) == EndsWith(qn, <<Dot>> \o suffix)

RECURSIVE dfs(_, _, _)
dfs(root, node, suffix) ==
    (IF "__qn__" \in DOMAIN root[node] /\ SuffixMatch(root[node]["__qn__"], suffix)
     THEN {root[node]["__qn__"]} ELSE {})
    \cup UNION {dfs(root, child, suffix) : child \in DfsChildren(root, node)}

find_with_prefix_and_suffix(reg, prefix, suffix) ==
    LET prefix_parts == IF prefix # <<>> THEN Split(prefix) ELSE <<>>
    IN  IF \E k \in 1..Len(prefix_parts) : SubSeq(prefix_parts, 1, k) \notin DOMAIN reg.root
        THEN {}
        ELSE dfs(reg.root, prefix_parts, suffix)

\* find_ending_with, were it to test the suffix without the dot.
find_ending_with_no_dot(reg, suffix) ==
    {qn \in keys(reg) : EndsWith(qn, suffix)}

find_ending_with(reg, suffix) ==
    {qn \in keys(reg) : EndsWith(qn, <<Dot>> \o suffix)}

-----------------------------------------------------------------------------
(* Paths (pathlib) *)

\* PurePath.suffix of a file name: from its last ".", unless that is its first
\* or its last character.
PathSuffix(name) ==
    LET i == LastDot(name)
    IN  IF 1 < i /\ i < Len(name) THEN SubSeq(name, i, Len(name)) ELSE <<>>

\* file_path.relative_to(base).parts, for a path under base.
relative_to(file_path, base) == SubSeq(file_path, Len(base) + 1, Len(file_path))

\* path.name
PathName(path) == path[Len(path)]

\* path.parent.parts
ParentParts(path) == SubSeq(path, 1, Len(path) - 1)

\* path.with_suffix("").parts
WithoutSuffixParts(path) ==
    LET name == PathName(path)
    IN  ParentParts(path) \o <<SubSeq(name, 1, Len(name) - Len(PathSuffix(name)))>>

-----------------------------------------------------------------------------
(* The repository of the model *)

INIT == <<"_", "_", "i", "n", "i", "t", "_", "_">>
INIT_PY == INIT \o <<".", "p", "y">>

\* self.repo_path and self.project_name = repo_path.name
repo_path == << <<"r">>, <<"p">> >>
project_name == PathName(repo_path)

F_init == repo_path \o << <<"a">>, INIT_PY >>
F_b    == repo_path \o << <<"a">>, <<"b", ".", "p", "y">> >>
F_bc   == repo_path \o << <<"a">>, <<"b", "c", ".", "p", "y">> >>

\* The source files, each with a parser for its language.
SourceFiles == {F_init, F_b, F_bc}

Q_b_c    == Join(<< <<"p">>, <<"a">>, <<"b">>, <<"c">> >>)
Q_b_init == Join(<< <<"p">>, <<"a">>, <<"b">>, INIT >>)
Q_bc_d   == Join(<< <<"p">>, <<"a">>, <<"b", "c">>, <<"d">> >>)
Q_bc     == Join(<< <<"p">>, <<"a">>, <<"b", "c">> >>)
Q_c      == <<"c">>

\* The qualified names the operations are tried on.
QNs == {Q_b_c, Q_b_init, Q_bc_d, Q_bc, Q_c}

\* Entity-kind tags.
Kinds == {"function", "method"}

-----------------------------------------------------------------------------
(* GraphUpdater.remove_file_from_state *)

\* Lines 194-202, were the test of the name "__init__.py" left out.
module_qn_prefix_no_package(file_path) ==
    Join(<<project_name>> \o WithoutSuffixParts(relative_to(file_path, repo_path)))

\* Lines 194-202: the module qualified-name prefix of a file under repo_path.
module_qn_prefix(file_path) ==
    LET relative_path == relative_to(file_path, repo_path)
    IN  IF PathName(file_path) = INIT_PY
        THEN Join(<<project_name>> \o ParentParts(relative_path))
        ELSE Join(<<project_name>> \o WithoutSuffixParts(relative_path))

\* Line 209, were it to test the prefix without the dot.
BelongsToNoDot(qn, prefix) == StartsWith(qn, prefix)

\* Line 209: the test that a qualified name belongs to the file.
BelongsTo(qn, prefix) == StartsWith(qn, prefix \o <<Dot>>) \/ qn = prefix

\* Lines 205-211, were the loop to stop at the first name it deletes.
qns_to_remove_first(reg, prefix) ==
    LET all == {qn \in keys(reg) : BelongsTo(qn, prefix)}
    IN  IF all = {} THEN {} ELSE {CHOOSE qn \in all : TRUE}

\* Lines 205-211: the names collected from the registry's keys.
qns_to_remove(reg, prefix) == {qn \in keys(reg) : BelongsTo(qn, prefix)}

RECURSIVE DelAll(_, _)
\* Lines 208-211: del self.function_registry[qn] for each collected name.
DelAll(reg, qns) ==
    IF qns = {} THEN reg
    ELSE LET qn == CHOOSE q \in qns : TRUE
         IN  DelAll(__delitem__(reg, qn), qns \ {qn})

\* Lines 219-223: every set that shrinks is replaced; the keys stay.
CleanSimpleNames(lookup, removed) ==
    [simple_name \in DOMAIN lookup |->
        LET qn_set     == lookup[simple_name]
            new_qn_set == qn_set \ removed
        IN  IF Cardinality(new_qn_set) < Cardinality(qn_set) THEN new_qn_set ELSE qn_set]

\* Lines 189-190, were the cache entry of the file left in place.
DropCachedNot(cache, file_path) == cache

\* Lines 189-190: the cached tree of the file is dropped.
DropCached(cache, file_path) ==
    IF file_path \in DOMAIN cache
    THEN [f \in DOMAIN cache \ {file_path} |-> cache[f]]
    ELSE cache

\* The three structures after remove_file_from_state(file_path) on state st.
remove_file_from_state(st, file_path) ==
    LET removed == qns_to_remove(st.function_registry, module_qn_prefix(file_path))
    IN  [function_registry  |-> DelAll(st.function_registry, removed),
         simple_name_lookup |-> CleanSimpleNames(st.simple_name_lookup, removed),
         ast_cache          |-> DropCached(st.ast_cache, file_path)]

-----------------------------------------------------------------------------
(* The collaborators, from their contracts *)

\* The last segment of a qualified name: the simple name it is indexed under.
SimpleName(qn) == LET parts == Split(qn) IN parts[Len(parts)]

\* Simple-Name Index add(name, qn): the defaultdict makes the key when absent.
add(lookup, name, qn) ==
    [n \in DOMAIN lookup \cup {name} |->
        IF n = name
        THEN (IF n \in DOMAIN lookup THEN lookup[n] ELSE {}) \cup {qn}
        ELSE lookup[n]]

\* The definitions process_file finds in each source file, each under the
\* file's module prefix: a/__init__.py is empty, a/b.py defines c and a
\* method __init__, a/bc.py defines d.
Definitions(file_path) ==
    IF file_path = F_b THEN {<<Q_b_c, "function">>, <<Q_b_init, "method">>}
    ELSE IF file_path = F_bc THEN {<<Q_bc_d, "function">>}
    ELSE {}

RECURSIVE Register(_, _)
\* process_file on success: every definition found is inserted in the
\* registry and added to the simple-name index.
Register(st, defs) ==
    IF defs = {} THEN st
    ELSE LET d == CHOOSE x \in defs : TRUE
         IN  Register([st EXCEPT
                          !.function_registry = insert(@, d[1], d[2]),
                          !.simple_name_lookup = add(@, SimpleName(d[1]), d[1])],
                      defs \ {d})

\* The (root_node, language) process_file returns for a file it parsed.
Parsed(file_path) == [root_node |-> file_path, language |-> "python"]

-----------------------------------------------------------------------------
(* GraphUpdater._process_files: the body of the loop, for one source file *)

\* Lines 239-247, were the cache entry written whatever process_file returns.
ProcessSourceFileCachingAbsent(st, file_path, ok) ==
    [(IF ok THEN Register(st, Definitions(file_path)) ELSE st) EXCEPT
        !.ast_cache = (file_path :> Parsed(file_path)) @@ @]

\* Lines 239-247: process_file, and the cache entry when it returns a result
\* (ok); an absent result (a parse failure) leaves no entry.
ProcessSourceFile(st, file_path, ok) ==
    IF ok
    THEN [Register(st, Definitions(file_path)) EXCEPT
            !.ast_cache = (file_path :> Parsed(file_path)) @@ @]
    ELSE st

-----------------------------------------------------------------------------
(* State *)

State == [function_registry  |-> function_registry,
          simple_name_lookup |-> simple_name_lookup,
          ast_cache          |-> ast_cache]

\* GraphUpdater.__init__
InitState == [function_registry  |-> EmptyRegistry,
              simple_name_lookup |-> <<>>,
              ast_cache          |-> <<>>]

NoPath == <<>>
NoQN == <<>>

\* An operation as `last` records it: what was called, the names the call
\* collected for removal, the state before it and the operation before it.
Called(name, qn, kind, path, removed) ==
    [op |-> name, qn |-> qn, kind |-> kind, path |-> path, removed |-> removed]

NoCall == Called("init", NoQN, None, NoPath, {})

Op(name, qn, kind, path, removed) ==
    [call |-> Called(name, qn, kind, path, removed),
     pre  |-> State,
     prev |-> last.call]

Init ==
    /\ function_registry = InitState.function_registry
    /\ simple_name_lookup = InitState.simple_name_lookup
    /\ ast_cache = InitState.ast_cache
    /\ pc = "idle"
    /\ todo = {}
    /\ calls_todo = {}
    /\ trace = <<>>
    /\ last = [call |-> NoCall, pre |-> InitState, prev |-> NoCall]
    /\ nops = 0
    /\ parsed = [run |-> {}, any |-> {}]

Becomes(st) ==
    /\ function_registry' = st.function_registry
    /\ simple_name_lookup' = st.simple_name_lookup
    /\ ast_cache' = st.ast_cache

RunIdle == UNCHANGED <<pc, todo, calls_todo, trace>>

\* `parsed` after process_file returned for file_path: a result (ok) or none.
AfterParse(h, file_path, ok) ==
    IF ok THEN [run |-> h.run \cup {file_path}, any |-> h.any \cup {file_path}]
    ELSE h

\* `parsed` after remove_file_from_state(file_path).
AfterRemoval(h, file_path) == [run |-> h.run \ {file_path}, any |-> h.any \ {file_path}]

-----------------------------------------------------------------------------
(* Operations on the updater's structures *)

\* function_registry.insert(qn, kind), as a collaborator calls it.
Insert(qn, kind) ==
    /\ Becomes([State EXCEPT !.function_registry = insert(@, qn, kind)])
    /\ last' = Op("insert", qn, kind, NoPath, {})
    /\ RunIdle
    /\ UNCHANGED parsed

\* del function_registry[qn]
Remove(qn) ==
    /\ Becomes([State EXCEPT !.function_registry = __delitem__(@, qn)])
    /\ last' = Op("remove", qn, None, NoPath, {})
    /\ RunIdle
    /\ UNCHANGED parsed

\* simple_name_lookup[name].add(qn)
Add(qn) ==
    /\ Becomes([State EXCEPT !.simple_name_lookup = add(@, SimpleName(qn), qn)])
    /\ last' = Op("add", qn, None, NoPath, {})
    /\ RunIdle
    /\ UNCHANGED parsed

\* One source file is indexed: the loop body of _process_files with a
\* successful parse.
IndexFile(file_path) ==
    /\ Becomes(ProcessSourceFile(State, file_path, TRUE))
    /\ last' = Op("index", NoQN, None, file_path, {})
    /\ parsed' = AfterParse(parsed, file_path, TRUE)
    /\ RunIdle

\* remove_file_from_state(file_path), called while no run() is under way.
RemoveFileFromState(file_path) ==
    /\ pc \in {"idle", "done"}
    /\ Becomes(remove_file_from_state(State, file_path))
    /\ last' = Op("remove_file_from_state", NoQN, None, file_path,
                  qns_to_remove(function_registry, module_qn_prefix(file_path)))
    /\ parsed' = AfterRemoval(parsed, file_path)
    /\ RunIdle

MaxOps == 4

Tick == nops < MaxOps /\ nops' = nops + 1

Next ==
    \/ \E qn \in QNs, kind \in Kinds : Tick /\ Insert(qn, kind)
    \/ \E qn \in QNs : Tick /\ Remove(qn)
    \/ \E qn \in QNs : Tick /\ Add(qn)
    \/ \E f \in SourceFiles : Tick /\ IndexFile(f)
    \/ \E f \in SourceFiles : Tick /\ RemoveFileFromState(f)

Spec == Init /\ [][Next]_vars

\* The registry alone, under every sequence of inserts and removes.
NextRegistry ==
    \/ \E qn \in QNs, kind \in Kinds : Insert(qn, kind) /\ UNCHANGED nops
    \/ \E qn \in QNs : Remove(qn) /\ UNCHANGED nops

SpecRegistry == Init /\ [][NextRegistry]_vars

-----------------------------------------------------------------------------
(* GraphUpdater.run *)

PYPROJECT_TOML == <<"p", "y", "p", "r", "o", "j", "e", "c", "t", ".", "t", "o", "m", "l">>

F_toml   == repo_path \o <<PYPROJECT_TOML>>
F_readme == repo_path \o << <<"R", "E", "A", "D", "M", "E">> >>

\* The files os.walk yields under repo_path. The order in which it yields
\* them is the file system's: any order.
RepoFiles == SourceFiles \cup {F_toml, F_readme}

\* Line 236-237: the file's suffix names a language that has a parser.
Supported(file_path) == PathSuffix(PathName(file_path)) = <<".", "p", "y">>

\* A collaborator call as `trace` records it. A call of process_file carries
\* the (root_node, language) it returned, a call of process_calls_in_file the
\* (root_node, language) it was given; NoTree and None where there is none.
NoTree == <<>>

CallWith(name, path, root_node, language) ==
    [call |-> name, path |-> path, root_node |-> root_node, language |-> language]

Call(name, path) == CallWith(name, path, NoTree, None)

\* process_file returned result for file_path.
Returned(file_path, ok) ==
    IF ok
    THEN CallWith("process_file", file_path,
                  Parsed(file_path).root_node, Parsed(file_path).language)
    ELSE Call("process_file", file_path)

\* Line 161: the Project node is ensured.
EnsureProject ==
    /\ pc = "idle"
    /\ trace' = Append(trace, Call("ensure_node_batch", NoPath))
    /\ pc' = "structure"
    /\ parsed' = [parsed EXCEPT !.run = {}]
    /\ UNCHANGED <<function_registry, simple_name_lookup, ast_cache, todo, calls_todo,
                   last, nops>>

\* Line 165: structure discovery; then _process_files starts its walk, which
\* will yield `files`, the files under repo_path at the time of this run.
IdentifyStructure(files) ==
    /\ pc = "structure"
    /\ trace' = Append(trace, Call("identify_structure", NoPath))
    /\ pc' = "files"
    /\ todo' = files
    /\ UNCHANGED <<function_registry, simple_name_lookup, ast_cache, calls_todo,
                   last, nops, parsed>>

\* Lines 236-247: a source file goes to process_file, which returns a
\* result (ok) or an absent one.
ProcessFile(file_path, ok) ==
    /\ pc = "files"
    /\ file_path \in todo
    /\ Supported(file_path)
    /\ Becomes(ProcessSourceFile(State, file_path, ok))
    /\ trace' = Append(trace, Returned(file_path, ok))
    /\ todo' = todo \ {file_path}
    /\ last' = Op("process_file", NoQN, None, file_path, {})
    /\ parsed' = AfterParse(parsed, file_path, ok)
    /\ UNCHANGED <<pc, calls_todo, nops>>

\* Lines 249-250: the project manifest goes to process_dependencies.
ProcessDependencies(file_path) ==
    /\ pc = "files"
    /\ file_path \in todo
    /\ ~Supported(file_path)
    /\ PathName(file_path) = PYPROJECT_TOML
    /\ trace' = Append(trace, Call("process_dependencies", file_path))
    /\ todo' = todo \ {file_path}
    /\ UNCHANGED <<function_registry, simple_name_lookup, ast_cache, pc, calls_todo,
                   last, nops, parsed>>

\* Lines 251-255: any other file goes to process_generic_file.
ProcessGenericFile(file_path) ==
    /\ pc = "files"
    /\ file_path \in todo
    /\ ~Supported(file_path)
    /\ PathName(file_path) # PYPROJECT_TOML
    /\ trace' = Append(trace, Call("process_generic_file", file_path))
    /\ todo' = todo \ {file_path}
    /\ UNCHANGED <<function_registry, simple_name_lookup, ast_cache, pc, calls_todo,
                   last, nops, parsed>>

\* Line 170, were call resolution to start while files are left to process.
FilesProcessedEarly == TRUE

\* Line 170 returns: the walk of _process_files has yielded every file.
FilesProcessed == todo = {}

\* Lines 176, 259: _process_function_calls starts to iterate the cache.
StartFunctionCalls ==
    /\ pc = "files"
    /\ FilesProcessed
    /\ pc' = "calls"
    /\ calls_todo' = DOMAIN ast_cache
    /\ last' = Op("_process_function_calls", NoQN, None, NoPath, {})
    /\ UNCHANGED <<function_registry, simple_name_lookup, ast_cache, todo, trace,
                   nops, parsed>>

\* Lines 259-262: process_calls_in_file for one entry of the cache.
ProcessCallsInFile(file_path) ==
    /\ pc = "calls"
    /\ file_path \in calls_todo
    /\ trace' = Append(trace, CallWith("process_calls_in_file", file_path,
                                       ast_cache[file_path].root_node,
                                       ast_cache[file_path].language))
    /\ calls_todo' = calls_todo \ {file_path}
    /\ UNCHANGED <<function_registry, simple_name_lookup, ast_cache, pc, todo,
                   last, nops, parsed>>

\* Line 176, were _process_function_calls to return before its loop ends.
CallsProcessedEarly == TRUE

\* Line 176 returns: every entry of the cache has been visited.
CallsProcessed == calls_todo = {}

\* Line 179
ProcessAllMethodOverrides ==
    /\ pc = "calls"
    /\ CallsProcessed
    /\ trace' = Append(trace, Call("process_all_method_overrides", NoPath))
    /\ pc' = "flush"
    /\ UNCHANGED <<function_registry, simple_name_lookup, ast_cache, todo, calls_todo,
                   last, nops, parsed>>

\* Line 182
FlushAll ==
    /\ pc = "flush"
    /\ trace' = Append(trace, Call("flush_all", NoPath))
    /\ pc' = "done"
    /\ UNCHANGED <<function_registry, simple_name_lookup, ast_cache, todo, calls_todo,
                   last, nops, parsed>>

NextRun ==
    \/ EnsureProject
    \/ IdentifyStructure(RepoFiles)
    \/ \E f \in RepoFiles, ok \in BOOLEAN : ProcessFile(f, ok)
    \/ \E f \in RepoFiles : ProcessDependencies(f)
    \/ \E f \in RepoFiles : ProcessGenericFile(f)
    \/ StartFunctionCalls
    \/ \E f \in RepoFiles : ProcessCallsInFile(f)
    \/ ProcessAllMethodOverrides
    \/ FlushAll

SpecRun == Init /\ [][NextRun]_vars

-----------------------------------------------------------------------------
(* Claims about remove_file_from_state *)

Removal == last.call.op = "remove_file_from_state"

\* q is p, or q is p followed by "." and more: stated on the characters.
AtDotBoundary(q, p) ==
    \/ q = p
    \/ /\ Len(q) > Len(p)
       /\ \A i \in 1..Len(p) : q[i] = p[i]
       /\ q[Len(p) + 1] = "."

\* C1: after remove_file_from_state(path), with p the module prefix of path,
\* the exact-lookup map is the map before the call without exactly the names
\* q with q = p or q starting with p + "."; every other name keeps its entry
\* and its kind, also one that shares only a string prefix with p (removing
\* a/b.py leaves p.a.bc.d).
C1_ExactRemoval ==
    Removal =>
        LET p      == module_qn_prefix(last.call.path)
            before == last.pre.function_registry.entries
            kept   == {q \in DOMAIN before : ~AtDotBoundary(q, p)}
        IN  /\ function_registry.entries = [q \in kept |-> before[q]]
            /\ (last.call.path = F_b /\ Q_bc_d \in DOMAIN before)
                   => get(function_registry, Q_bc_d) = before[Q_bc_d]

\* Removing a/b.py took p.a.b.c and left p.a.bc.d and p.a.bc.
C1_Witness ==
    /\ Removal
    /\ last.call.path = F_b
    /\ {Q_b_c, Q_bc_d, Q_bc} \subseteq DOMAIN last.pre.function_registry.entries
    /\ DOMAIN function_registry.entries = {Q_bc_d, Q_bc}

\* C2: for two distinct indexed files F and G, remove_file_from_state(F)
\* leaves every name G registered in the registry, with its kind, and in the
\* simple-name sets.
C2_OtherFilesKept ==
    (Removal /\ last.call.path \in DOMAIN last.pre.ast_cache) =>
        \A G \in DOMAIN last.pre.ast_cache \ {last.call.path} :
            \A d \in Definitions(G) :
                LET q == d[1] IN
                /\ q \in DOMAIN last.pre.function_registry.entries
                      => get(function_registry, q) = last.pre.function_registry.entries[q]
                /\ \A n \in DOMAIN last.pre.simple_name_lookup :
                      q \in last.pre.simple_name_lookup[n]
                          => n \in DOMAIN simple_name_lookup /\ q \in simple_name_lookup[n]

\* C3: right after remove_file_from_state(path), no name that belongs to path
\* is in any simple-name set, whether or not the registry still held it when
\* the call started.
C3_NoSimpleNameLeft ==
    Removal =>
        \A n \in DOMAIN simple_name_lookup :
            \A q \in simple_name_lookup[n] :
                ~AtDotBoundary(q, module_qn_prefix(last.call.path))

RECURSIVE IndexAll(_)
\* The state after indexing every file of a set, from construction.
IndexAll(files) ==
    IF files = {} THEN InitState
    ELSE LET f == CHOOSE x \in files : TRUE
         IN  ProcessSourceFile(IndexAll(files \ {f}), f, TRUE)

\* The prefixes and suffixes the find_* queries are tried on.
QueryPrefixes ==
    {<<>>, <<"p">>, Join(<< <<"p">>, <<"a">> >>), Join(<< <<"p">>, <<"a">>, <<"b">> >>),
     Q_bc, Q_b_c, Q_b_init, Join(<< <<"p">>, <<"x">> >>)}

QuerySuffixes ==
    {<<>>, <<"c">>, <<"d">>, <<"b", "c">>, INIT, <<"b", ".", "c">>}

\* What the three structures show through their read operations.
Observed(st) ==
    LET reg == st.function_registry IN
    [get      |-> [q \in QNs |-> get(reg, q)],
     contains |-> {q \in QNs : __contains__(reg, q)},
     keys     |-> keys(reg),
     items    |-> items(reg),
     len      |-> __len__(reg),
     find_with_prefix_and_suffix |->
         [x \in QueryPrefixes \X QuerySuffixes |->
             find_with_prefix_and_suffix(reg, x[1], x[2])],
     find_ending_with |-> [x \in QuerySuffixes |-> find_ending_with(reg, x)],
     simple_names     |-> DOMAIN st.simple_name_lookup,
     simple_name_sets |-> st.simple_name_lookup,
     ast_cache        |-> st.ast_cache]

\* C4: indexing a set of files and then calling remove_file_from_state(F)
\* leaves the registry as its read operations show it, the simple-name index
\* (keys and sets) and the cache as indexing the same files without F does.
C4_AsIfNeverIndexed ==
    \A files \in SUBSET SourceFiles :
        (Removal /\ last.call.path \in files /\ last.pre = IndexAll(files))
            => Observed(State) = Observed(IndexAll(files \ {last.call.path}))

-----------------------------------------------------------------------------
(* Claims about run *)

Phase(call) ==
    CASE call = "ensure_node_batch" -> 1
      [] call = "identify_structure" -> 2
      [] call \in {"process_file", "process_dependencies", "process_generic_file"} -> 3
      [] call = "process_calls_in_file" -> 4
      [] call = "process_all_method_overrides" -> 5
      [] call = "flush_all" -> 6

Positions(call) == {i \in 1..Len(trace) : trace[i].call = call}

\* Some call before position j of the trace is the call `name` for `path`.
Before(j, name, path) ==
    \E i \in 1..(j - 1) : trace[i].call = name /\ trace[i].path = path

\* C5: in every execution of run() the Project node is ensured and the
\* structure discovered, then definitions are collected over all files, then
\* calls are resolved over all cached trees, then overrides, then flush_all:
\* no process_calls_in_file precedes the return of process_file for any
\* source file, process_all_method_overrides follows the last
\* process_calls_in_file, and flush_all is called once and last.
C5_PhaseOrder ==
    /\ \A i, j \in 1..Len(trace) : i < j => Phase(trace[i].call) <= Phase(trace[j].call)
    /\ \A c \in {"ensure_node_batch", "identify_structure",
                  "process_all_method_overrides", "flush_all"} :
          Cardinality(Positions(c)) <= 1
    /\ \A j \in Positions("identify_structure") : Before(j, "ensure_node_batch", NoPath)
    /\ \A j \in 1..Len(trace) :
          Phase(trace[j].call) = 3 => Before(j, "identify_structure", NoPath)
    /\ \A j \in Positions("process_calls_in_file") :
          \A f \in RepoFiles :
             Before(j, IF Supported(f) THEN "process_file"
                       ELSE IF PathName(f) = PYPROJECT_TOML THEN "process_dependencies"
                       ELSE "process_generic_file", f)
    /\ \A j \in Positions("process_all_method_overrides") :
          /\ \A f \in SourceFiles : Before(j, "process_file", f)
          /\ \A f \in DOMAIN ast_cache : Before(j, "process_calls_in_file", f)
    /\ \A j \in Positions("flush_all") :
          j = Len(trace) /\ Before(j, "process_all_method_overrides", NoPath)
    /\ pc = "done" => Positions("flush_all") = {Len(trace)}

\* A finished run in which a/b.py was collected before a/bc.py and the calls
\* of both were resolved.
C5_Witness ==
    /\ pc = "done"
    /\ \E i, j, k, l \in 1..Len(trace) :
          /\ i < j /\ j < k /\ j < l
          /\ trace[i] = Returned(F_b, TRUE)
          /\ trace[j] = Returned(F_bc, TRUE)
          /\ trace[k].call = "process_calls_in_file" /\ trace[k].path = F_b
          /\ trace[l].call = "process_calls_in_file" /\ trace[l].path = F_bc

-----------------------------------------------------------------------------
(* Claims about the registry *)

\* q ends with "." followed by s: stated on the characters.
EndsAtDot(q, s) ==
    /\ Len(q) >= Len(s) + 1
    /\ q[Len(q) - Len(s)] = "."
    /\ \A i \in 1..Len(s) : q[Len(q) - Len(s) + i] = s[i]

\* The dot-segments of a query prefix; the empty prefix has none.
PrefixParts(prefix) == IF prefix = <<>> THEN <<>> ELSE Split(prefix)

\* The terminal nodes of the subtree at a path.
TerminalsUnder(root, parts) ==
    {n \in DOMAIN root :
        /\ Len(n) >= Len(parts)
        /\ SubSeq(n, 1, Len(parts)) = parts
        /\ "__qn__" \in DOMAIN root[n]}

\* C6: find_with_prefix_and_suffix(prefix, suffix) is empty when a dot-segment
\* of prefix is absent from the trie, and otherwise is exactly the terminal
\* names of the subtree at prefix that end with "." + suffix, also for names
\* with a segment that starts with two underscores.
C6_PrefixSuffixExact ==
    \A prefix \in QueryPrefixes, suffix \in QuerySuffixes :
        LET root  == function_registry.root
            parts == PrefixParts(prefix)
        IN  find_with_prefix_and_suffix(function_registry, prefix, suffix) =
               IF parts \notin DOMAIN root THEN {}
               ELSE {q \in {root[n]["__qn__"] : n \in TerminalsUnder(root, parts)} :
                        EndsAtDot(q, suffix)}

\* C7: find_ending_with(suffix) returns the names that
\* find_with_prefix_and_suffix("", suffix) returns, for every suffix.
C7_SuffixSearchesAgree ==
    \A suffix \in QuerySuffixes :
        find_ending_with(function_registry, suffix) =
            find_with_prefix_and_suffix(function_registry, <<>>, suffix)

\* C8: find_ending_with(suffix) is exactly the names of the exact-lookup map
\* that end with "." + suffix: not a name whose last segment only ends with
\* the characters of suffix (p.a.bc for suffix c), not a name equal to the
\* suffix (c for suffix c).
C8_EndingWithExact ==
    /\ \A suffix \in QuerySuffixes :
          find_ending_with(function_registry, suffix) =
              {q \in DOMAIN function_registry.entries : EndsAtDot(q, suffix)}
    /\ Q_bc \notin find_ending_with(function_registry, <<"c">>)
    /\ Q_c \notin find_ending_with(function_registry, <<"c">>)

C8_Witness ==
    /\ {Q_b_c, Q_bc, Q_c} \subseteq keys(function_registry)
    /\ find_ending_with(function_registry, <<"c">>) = {Q_b_c}

\* C9: after insert(x, K), also when x was registered with another kind,
\* get(x) = K, len() counts x once, and the trie has one terminal node for x,
\* at the path of x's segments, with kind marker K; an insert of a registered
\* name adds no node and no entry.
C9_InsertOverwrites ==
    last.call.op = "insert" =>
        LET x      == last.call.qn
            K      == last.call.kind
            reg    == function_registry
            before == last.pre.function_registry
        IN  /\ get(reg, x) = K
            /\ __len__(reg) = Cardinality(DOMAIN before.entries \cup {x})
            /\ {n \in DOMAIN reg.root :
                    "__qn__" \in DOMAIN reg.root[n] /\ reg.root[n]["__qn__"] = x}
                  = {Split(x)}
            /\ reg.root[Split(x)]["__type__"] = K
            /\ x \in DOMAIN before.entries =>
                  /\ DOMAIN reg.root = DOMAIN before.root
                  /\ __len__(reg) = __len__(before)

\* insert(x, K1) and then insert(x, K2) with another kind.
C9_Witness ==
    /\ last.call.op = "insert"
    /\ last.prev.op = "insert"
    /\ last.prev.qn = last.call.qn
    /\ last.prev.kind # last.call.kind

\* C10: remove_file_from_state(F) called again right after
\* remove_file_from_state(F) changes nothing in the registry, the simple-name
\* index and the cache: two calls in a row leave what one call leaves.
C10_RemovalIdempotent ==
    /\ Removal => remove_file_from_state(State, last.call.path) = State
    /\ (Removal /\ last.prev.op = "remove_file_from_state"
                /\ last.prev.path = last.call.path)
           => State = last.pre /\ last.call.removed = {}

\* The second of two calls for a file whose first call removed names.
C10_Witness ==
    /\ Removal
    /\ last.prev.op = "remove_file_from_state"
    /\ last.prev.path = last.call.path
    /\ last.prev.removed # {}

-----------------------------------------------------------------------------
(* Further claims about remove_file_from_state and the registry *)

\* C11: for a path that was never indexed, remove_file_from_state(path)
\* collects no name and leaves the registry, every simple-name set and the
\* cache as they were.
C11_UnknownFileNoOp ==
    \A files \in SUBSET SourceFiles :
        (Removal /\ last.call.path \notin files /\ last.pre = IndexAll(files))
            => last.call.removed = {} /\ State = last.pre

\* C12: remove(qn) deletes the exact-lookup entry of qn and nothing else: the
\* trie's nodes and markers and every other entry stay, a name that is not
\* present is removed without effect, and afterwards get(qn) is absent,
\* contains(qn) is false and len() has dropped by one; get and contains of
\* any name the map does not hold are absent and false, whatever the trie holds.
C12_RemoveOnlyEntry ==
    /\ last.call.op = "remove" =>
          LET q      == last.call.qn
              reg    == function_registry
              before == last.pre.function_registry
          IN  /\ reg.root = before.root
              /\ reg.entries = [x \in DOMAIN before.entries \ {q} |-> before.entries[x]]
              /\ keys(reg) = keys(before) \ {q}
              /\ items(reg) = {i \in items(before) : i[1] # q}
              /\ get(reg, q) = None
              /\ ~__contains__(reg, q)
              /\ __len__(reg) =
                    __len__(before) - (IF q \in DOMAIN before.entries THEN 1 ELSE 0)
              /\ q \notin DOMAIN before.entries => reg = before
    /\ \A x \in QNs :
          x \notin DOMAIN function_registry.entries
              => get(function_registry, x) = None /\ ~__contains__(function_registry, x)

\* remove of a registered name, beside another registered name: its node
\* keeps the markers.
C12_Witness ==
    /\ last.call.op = "remove"
    /\ last.call.qn \in DOMAIN last.pre.function_registry.entries
    /\ __len__(function_registry) = 1
    /\ function_registry.root[Split(last.call.qn)] # NoMeta

\* The nodes of the trie that carry terminal markers.
MarkedNodes(root) == {n \in DOMAIN root : root[n] # NoMeta}

\* C15: a trie node carries the terminal markers only if some currently
\* registered name terminates at that node.
C15_MarkersOnlyOnRegistered ==
    \A n \in MarkedNodes(function_registry.root) :
        /\ function_registry.root[n]["__qn__"] \in DOMAIN function_registry.entries
        /\ Split(function_registry.root[n]["__qn__"]) = n

\* C15 as amended: a trie node carries the terminal markers only if some name
\* that was inserted, registered now or removed since, terminates at that
\* node: the markers are the name whose segments are the node's path and a
\* kind, and they appear or change only by an insert of that name.
C15_MarkersFromInserts ==
    \A n \in MarkedNodes(function_registry.root) :
        LET m == function_registry.root[n] IN
        /\ DOMAIN m = {"__type__", "__qn__"}
        /\ Split(m["__qn__"]) = n
        /\ \/ n \in DOMAIN last.pre.function_registry.root
              /\ last.pre.function_registry.root[n] = m
           \/ /\ last.call.op = "insert"
              /\ last.call.qn = m["__qn__"]
              /\ last.call.kind = m["__type__"]
           \/ /\ last.call.op = "index"
              /\ <<m["__qn__"], m["__type__"]>> \in Definitions(last.call.path)

\* A node keeps the markers of a name remove_file_from_state took from the map.
C15_Witness ==
    /\ Removal
    /\ \E n \in MarkedNodes(function_registry.root) :
          /\ function_registry.root[n]["__qn__"] \in last.call.removed
          /\ function_registry.root[n]["__qn__"] \notin DOMAIN function_registry.entries

\* The names that were inserted, then removed and not inserted again: their
\* nodes carry the markers and the map does not hold them.
RemovedNames(reg) ==
    {reg.root[n]["__qn__"] : n \in MarkedNodes(reg.root)} \ DOMAIN reg.entries

\* parts is the path of a node on the way to the node of q.
OnPathOf(parts, q) ==
    /\ Len(parts) <= Len(Split(q))
    /\ SubSeq(Split(q), 1, Len(parts)) = parts

\* C16: for a name q inserted, then removed and not inserted again,
\* find_ending_with never returns q, and find_with_prefix_and_suffix with a
\* prefix on q's path and a suffix q ends with still returns q.
C16_TrieSearchKeepsRemoved ==
    \A q \in RemovedNames(function_registry) :
        \A suffix \in QuerySuffixes :
            /\ q \notin find_ending_with(function_registry, suffix)
            /\ EndsAtDot(q, suffix) =>
                  \A prefix \in QueryPrefixes :
                      OnPathOf(PrefixParts(prefix), q)
                          => q \in find_with_prefix_and_suffix(function_registry,
                                                               prefix, suffix)

\* C19: every name of the exact-lookup map has the path of its segments in
\* the trie from the root, and the node at the end of the path carries the
\* name and the kind get returns.
C19_LiveEntriesInTrie ==
    \A q \in DOMAIN function_registry.entries :
        LET parts == Split(q)
            root  == function_registry.root
        IN  /\ \A k \in 0..Len(parts) : SubSeq(parts, 1, k) \in DOMAIN root
            /\ "__qn__" \in DOMAIN root[parts] /\ root[parts]["__qn__"] = q
            /\ "__type__" \in DOMAIN root[parts]
            /\ root[parts]["__type__"] = get(function_registry, q)

\* After a removal that took names from the map, a name the map still holds
\* beside a node that keeps the markers of a removed name.
C19_Witness ==
    /\ Removal
    /\ last.call.removed # {}
    /\ function_registry.entries # <<>>
    /\ RemovedNames(function_registry) # {}

\* C20: indexing a file, remove_file_from_state for it and indexing it again
\* leave the exact-lookup map, the trie and the simple-name sets as they were
\* right after the first indexing.
C20_ReindexRoundTrip ==
    \A files \in SUBSET SourceFiles :
        (last.call.op = "index" /\ State = IndexAll(files)) =>
            LET F     == last.call.path
                again == ProcessSourceFile(remove_file_from_state(State, F), F, TRUE)
            IN  /\ again.function_registry = function_registry
                /\ again.simple_name_lookup = simple_name_lookup

-----------------------------------------------------------------------------
(* The module prefix of remove_file_from_state, over a family of paths *)

\* The deepest directory nesting of the paths.
MaxDirs == 2

DirNames == {<<"a">>, <<"b">>}

\* The directory parts of a path relative to repo_path.
DirParts == UNION {[1..k -> DirNames] : k \in 0..MaxDirs}

\* File names as stem and extension: the package initializer, modules, a
\* module whose stem holds a dot, a name without extension, a name that
\* starts with a dot, and __init__ with another extension.
PY == <<".", "p", "y">>
FileNames ==
    {[stem |-> INIT, ext |-> PY],
     [stem |-> <<"m", "o", "d">>, ext |-> PY],
     [stem |-> <<"b">>, ext |-> PY],
     [stem |-> <<"a", ".", "b">>, ext |-> PY],
     [stem |-> <<"x">>, ext |-> <<>>],
     [stem |-> <<".", "h">>, ext |-> <<>>],
     [stem |-> INIT, ext |-> <<".", "t">>]}

\* file_path: repo_path, the directories, the file name.
PathOf(dirs, name) == repo_path \o dirs \o <<name.stem \o name.ext>>

PrefixPaths == {PathOf(dirs, name) : dirs \in DirParts, name \in FileNames}

\* Lines 194-202 for one file_path; the prefix is recorded as the call's qn.
ModuleQnPrefix(file_path) ==
    /\ last' = Op("module_qn_prefix", module_qn_prefix(file_path), None, file_path, {})
    /\ UNCHANGED <<function_registry, simple_name_lookup, ast_cache,
                   pc, todo, calls_todo, trace, nops, parsed>>

NextPrefix == \E file_path \in PrefixPaths : ModuleQnPrefix(file_path)

SpecPrefix == Init /\ [][NextPrefix]_vars

\* C13: the module prefix is a function of the project name and the path
\* relative to the repository root: for a file named __init__.py it is the
\* project name followed by the directory segments, for any other file the
\* project name followed by the path segments with the extension dropped.
C13_ModulePrefix ==
    last.call.op = "module_qn_prefix" =>
        \A dirs \in DirParts, name \in FileNames :
            last.call.path = PathOf(dirs, name) =>
                last.call.qn =
                    IF name.stem = INIT /\ name.ext = PY
                    THEN Join(<<project_name>> \o dirs)
                    ELSE Join(<<project_name>> \o dirs \o <<name.stem>>)

\* a/b/__init__.py gives p.a.b, right after a/b/mod.py gave p.a.b.mod.
C13_Witness ==
    /\ last.call.op = "module_qn_prefix"
    /\ last.call.path = repo_path \o << <<"a">>, <<"b">>, INIT_PY >>
    /\ last.call.qn = <<"p", ".", "a", ".", "b">>
    /\ last.prev.op = "module_qn_prefix"
    /\ last.prev.path = repo_path \o << <<"a">>, <<"b">>, <<"m", "o", "d", ".", "p", "y">> >>
    /\ last.prev.qn = <<"p", ".", "a", ".", "b", ".", "m", "o", "d">>

-----------------------------------------------------------------------------
(* Further claims about run *)

\* The files for which process_file has returned an absent result in this run.
FailedToParse ==
    {trace[i].path : i \in {j \in Positions("process_file") : trace[j].language = None}}

\* The trace holds a call `name` for `path`.
WasCalled(name, path) == Before(Len(trace) + 1, name, path)

\* C14: a parse failure is skipped and does not abort the run: when
\* process_file returns an absent result nothing is written, no cache entry
\* either; the run goes on, and when it has finished every file the walk
\* yields has been processed, the calls of every cached file resolved, the
\* overrides processed and flush_all called.
C14_ParseFailureSkipped ==
    /\ ( /\ last.call.op = "process_file"
         /\ trace # <<>>
         /\ trace[Len(trace)] = Call("process_file", last.call.path) )
          => State = last.pre
    /\ FailedToParse # {} =>
          /\ pc # "done" => ENABLED NextRun
          /\ pc = "done" =>
                /\ \A f \in RepoFiles :
                      \E i \in 1..Len(trace) :
                          Phase(trace[i].call) = 3 /\ trace[i].path = f
                /\ \A f \in DOMAIN ast_cache : WasCalled("process_calls_in_file", f)
                /\ WasCalled("process_all_method_overrides", NoPath)
                /\ trace[Len(trace)] = Call("flush_all", NoPath)

\* A finished run in which a/b.py failed to parse first: a/bc.py was parsed
\* after it and is cached, a/b.py is not, and the calls of a/bc.py were
\* resolved.
C14_Witness ==
    /\ pc = "done"
    /\ F_b \in FailedToParse
    /\ F_b \notin DOMAIN ast_cache
    /\ F_bc \in DOMAIN ast_cache
    /\ \E i, j \in 1..Len(trace) :
          /\ i < j
          /\ trace[i] = Call("process_file", F_b)
          /\ trace[j] = Returned(F_bc, TRUE)
    /\ WasCalled("process_calls_in_file", F_bc)

\* The positions of the trace at which the calls of `path` are resolved.
CallsResolved(path) == {i \in Positions("process_calls_in_file") : trace[i].path = path}

\* C17: phase 3 calls process_calls_in_file exactly once for each entry of
\* the cache, with the entry's path, tree and language, and writes nothing:
\* the registry, the simple-name index and the cache are the same at the end
\* of the phase as at its start.
C17_CallsPhaseReadOnly ==
    (last.call.op = "_process_function_calls" /\ pc \in {"calls", "flush", "done"}) =>
        /\ State = last.pre
        /\ \A i \in Positions("process_calls_in_file") :
              /\ trace[i].path \in DOMAIN ast_cache
              /\ trace[i].root_node = ast_cache[trace[i].path].root_node
              /\ trace[i].language = ast_cache[trace[i].path].language
              /\ CallsResolved(trace[i].path) = {i}
        /\ pc \in {"flush", "done"} =>
              \A f \in DOMAIN ast_cache : Cardinality(CallsResolved(f)) = 1

\* Phase 3 has ended over a cache of two entries, a third file having
\* failed to parse.
C17_Witness ==
    /\ pc = "flush"
    /\ last.call.op = "_process_function_calls"
    /\ Cardinality(DOMAIN ast_cache) = 2
    /\ Cardinality(Positions("process_calls_in_file")) = 2
    /\ FailedToParse # {}

-----------------------------------------------------------------------------
(* run() and remove_file_from_state called again and again on one updater *)

\* The source files that exist under repo_path at the time of one run or
\* another.
RunsFiles == {F_b, F_bc}

\* run() returns; the updater is idle until run() is called again.
RunReturns ==
    /\ pc = "done"
    /\ pc' = "idle"
    /\ trace' = <<>>
    /\ UNCHANGED <<function_registry, simple_name_lookup, ast_cache, todo, calls_todo,
                   last, nops, parsed>>

NextRuns ==
    \/ EnsureProject
    \/ \E files \in SUBSET RunsFiles : IdentifyStructure(files)
    \/ \E f \in RunsFiles, ok \in BOOLEAN : ProcessFile(f, ok)
    \/ StartFunctionCalls
    \/ \E f \in RunsFiles : ProcessCallsInFile(f)
    \/ ProcessAllMethodOverrides
    \/ FlushAll
    \/ RunReturns
    \/ \E f \in RunsFiles : RemoveFileFromState(f) /\ UNCHANGED nops

SpecRuns == Init /\ [][NextRuns]_vars

\* No run() is under way.
Quiescent == pc \in {"idle", "done"}

\* C18: after any sequence of run() executions and remove_file_from_state
\* calls the cache holds an entry for a path if and only if the path was
\* successfully parsed in phase 2 of the most recent run and has not been
\* removed since: no entry is kept from an earlier run for a file that
\* failed to parse or no longer exists in the most recent run.
C18_CacheOfMostRecentRun ==
    Quiescent => DOMAIN ast_cache = parsed.run

\* C18 as amended: the cache holds one entry per path, and it holds an entry
\* for a path if and only if the path was successfully parsed in phase 2 of
\* some run, the most recent or an earlier one, and has not been removed
\* since that parse; the entry is the (tree, language) of the path.
C18_CacheOfAnyRun ==
    /\ DOMAIN ast_cache = parsed.any
    /\ \A f \in DOMAIN ast_cache : ast_cache[f] = Parsed(f)

\* A second run has finished in which a/b.py failed to parse and a/bc.py
\* was not found; the cache keeps the entry of a/b.py from the first run and
\* has lost the entry of a/bc.py to a removal.
C18_Witness ==
    /\ pc = "done"
    /\ trace = <<Call("ensure_node_batch", NoPath), Call("identify_structure", NoPath),
                 Call("process_file", F_b),
                 CallWith("process_calls_in_file", F_b,
                          Parsed(F_b).root_node, Parsed(F_b).language),
                 Call("process_all_method_overrides", NoPath),
                 Call("flush_all", NoPath)>>
    /\ parsed.run = {}
    /\ DOMAIN ast_cache = {F_b}
    /\ Split(Q_bc_d) \in DOMAIN function_registry.root
    /\ Q_bc_d \notin DOMAIN function_registry.entries

=============================================================================
